---- MODULE Spec2Model ----
(***************************************************************************)
(* Model of the chit-fund calculator (src/src/ChitFundApp.tsx).            *)
(*                                                                         *)
(* One behaviour of the model is one call of calculateChitDetails on the   *)
(* calcInputs / loanUtilization state the input form can produce.  The     *)
(* month loop is followed one iteration per step.                          *)
(*                                                                         *)
(* JavaScript numbers are modelled as exact extended rationals: a pair     *)
(* <<n, d>> in lowest terms with d > 0 is the number n/d, and the three    *)
(* pairs with d = 0 are the IEEE-754 specials the code can produce by      *)
(* dividing by a zero withdrawal amount: <<1,0>> = +Infinity,              *)
(* <<-1,0>> = -Infinity, <<0,0>> = NaN.  Spec follows the code in exact    *)
(* arithmetic; FloatSpec follows the month loop in binary floating point,  *)
(* each operation rounding its result to MantissaBits mantissa bits.  The  *)
(* sign of zero is not modelled, every zero divisor of the code being +0.  *)
(***************************************************************************)
EXTENDS Integers, Sequences, FiniteSets, TLC

\* ------------------------------------------------------------------------
\* Bounds of the model
\* ------------------------------------------------------------------------

\* Largest member count of the enumerated small schemes.
MaxMembers == 3

\* Schemes with more than MaxMembers members (the form's default scheme, 20
\* members) are followed for this many months only: their exact rational
\* amounts outgrow TLC's 32-bit integers after that.
MaxDefaultMonths == 3

\* Mantissa bits of the floating-point arithmetic FloatSpec follows.  A
\* JavaScript number has 53.  The binary expansion of a quotient by 11 has
\* period 10, so rounding it to 13 bits cuts the expansion at the same phase
\* as rounding it to 53 bits, and every integer up to 8191 is exact.
MantissaBits == 13

\* ------------------------------------------------------------------------
\* JavaScript number arithmetic on extended rationals
\* ------------------------------------------------------------------------

\* The pairs that stand for JavaScript numbers.  The operations are functions
\* on these pairs: an operand is evaluated once, to a value, before the
\* operation is applied to it.
Number == Int \X Nat

Abs(n) == IF n < 0 THEN -n ELSE n

\* Euclid's algorithm on naturals.
Gcd[a \in Nat, b \in Nat] == IF b = 0 THEN a ELSE Gcd[b, a % b]

NaN == <<0, 0>>
PosInf == <<1, 0>>
NegInf == <<-1, 0>>
Zero == <<0, 1>>

Num(k) == <<k, 1>>

IsNaN(x) == x = NaN
IsFinite(x) == x[2] > 0
Sgn(x) == IF x[1] > 0 THEN 1 ELSE IF x[1] < 0 THEN -1 ELSE 0

Reduce[n \in Int, d \in Nat, g \in Nat] == <<n \div g, d \div g>>

Norm[n \in Int, d \in Nat] == Reduce[n, d, Gcd[Abs(n), d]]

Neg[x \in Number] == <<-x[1], x[2]>>

AddFinite[x \in Number, y \in Number, g \in Nat] ==
    Norm[x[1] * (y[2] \div g) + y[1] * (x[2] \div g), (x[2] \div g) * y[2]]

Add[x \in Number, y \in Number] ==
    IF IsNaN(x) \/ IsNaN(y) THEN NaN
    ELSE IF ~IsFinite(x) /\ ~IsFinite(y) THEN (IF x = y THEN x ELSE NaN)
    ELSE IF ~IsFinite(x) THEN x
    ELSE IF ~IsFinite(y) THEN y
    ELSE AddFinite[x, y, Gcd[x[2], y[2]]]

Sub[x \in Number, y \in Number] == Add[x, Neg[y]]

MulFinite[x \in Number, y \in Number, g1 \in Nat, g2 \in Nat] ==
    <<(x[1] \div g1) * (y[1] \div g2), (x[2] \div g2) * (y[2] \div g1)>>

Mul[x \in Number, y \in Number] ==
    IF IsNaN(x) \/ IsNaN(y) THEN NaN
    ELSE IF ~IsFinite(x) \/ ~IsFinite(y)
         THEN (IF Sgn(x) * Sgn(y) = 0 THEN NaN
               ELSE IF Sgn(x) * Sgn(y) > 0 THEN PosInf ELSE NegInf)
    ELSE MulFinite[x, y, Gcd[Abs(x[1]), y[2]], Gcd[Abs(y[1]), x[2]]]

Div[x \in Number, y \in Number] ==
    IF IsNaN(x) \/ IsNaN(y) THEN NaN
    ELSE IF ~IsFinite(y) THEN (IF IsFinite(x) THEN Zero ELSE NaN)
    ELSE IF y[1] = 0
         THEN (IF Sgn(x) = 0 THEN NaN
               ELSE IF Sgn(x) > 0 THEN PosInf ELSE NegInf)
    ELSE IF ~IsFinite(x)
         THEN (IF Sgn(x) * Sgn(y) > 0 THEN PosInf ELSE NegInf)
    ELSE Mul[x, IF y[1] > 0 THEN <<y[2], y[1]>> ELSE <<-y[2], -y[1]>>]

\* x < y, x <= y, x === y of JavaScript: every comparison with NaN is false.
Lt[x \in Number, y \in Number] ==
    IF IsNaN(x) \/ IsNaN(y) \/ x = y THEN FALSE
    ELSE IF x = NegInf \/ y = PosInf THEN TRUE
    ELSE IF x = PosInf \/ y = NegInf THEN FALSE
    ELSE Sub[x, y][1] < 0

Le[x \in Number, y \in Number] ==
    ~IsNaN(x) /\ ~IsNaN(y) /\ (x = y \/ Lt[x, y])

StrictEq[x \in Number, y \in Number] == ~IsNaN(x) /\ ~IsNaN(y) /\ x = y

\* Math.floor, Math.round (half up), Math.min
Floor[x \in Number] == IF IsFinite(x) THEN <<x[1] \div x[2], 1>> ELSE x

Round[x \in Number] == Floor[Add[x, <<1, 2>>]]

MathMin[x \in Number, y \in Number] ==
    IF IsNaN(x) \/ IsNaN(y) THEN NaN ELSE IF Lt[x, y] THEN x ELSE y

\* Math.abs
\* Binary floating point.  Every arithmetic operation of a JavaScript number
\* rounds its exact result to the nearest number with a fixed count of
\* mantissa bits, ties to the even mantissa (IEEE 754; 53 bits for a double).
\* RoundAt[p, n, d] is n/d (n, d > 0) rounded to p mantissa bits: the value
\* is scaled by powers of two until its integer part has exactly p bits.
\* Exponent limits are not modelled (no value of the loop is near them).
RoundAt[p \in Nat, n \in Nat, d \in Nat] ==
    IF n >= (2 ^ p) * d
    THEN Norm[2 * RoundAt[p, n, 2 * d][1], RoundAt[p, n, 2 * d][2]]
    ELSE IF n < (2 ^ (p - 1)) * d
    THEN Norm[RoundAt[p, 2 * n, d][1], 2 * RoundAt[p, 2 * n, d][2]]
    ELSE IF 2 * (n % d) > d \/ (2 * (n % d) = d /\ (n \div d) % 2 = 1)
    THEN <<(n \div d) + 1, 1>>
    ELSE <<n \div d, 1>>

\* The number an operation with exact result x yields in arithmetic of p
\* mantissa bits; p = 0 stands for exact arithmetic.
Fl[p \in Nat, x \in Number] ==
    IF p = 0 \/ ~IsFinite(x) \/ x[1] = 0 THEN x
    ELSE IF x[1] < 0 THEN Neg[RoundAt[p, -x[1], x[2]]]
    ELSE RoundAt[p, x[1], x[2]]

AbsNum[x \in Number] == IF x[1] < 0 THEN Neg[x] ELSE x

\* Math.pow with a natural exponent (Math.pow(x, 0) is 1 for every x).
Pow[x \in Number, n \in Nat] == IF n = 0 THEN Num(1) ELSE Mul[Pow[x, n - 1], x]

\* a/b < c/d for naturals a, c and positive b, d, by integer parts and then
\* the remainders' reciprocals: no product of the operands is formed.
LessPos[a \in Nat, b \in Nat, c \in Nat, d \in Nat] ==
    IF a \div b # c \div d THEN a \div b < c \div d
    ELSE IF a % b = 0 THEN c % d > 0
    ELSE IF c % d = 0 THEN FALSE
    ELSE LessPos[d, c % d, b, a % b]

\* x < y of JavaScript again, for operands with large denominators (a rate
\* against a bound, a present value against the tolerance).
LessThan[x \in Number, y \in Number] ==
    IF IsNaN(x) \/ IsNaN(y) \/ x = y THEN FALSE
    ELSE IF x = NegInf \/ y = PosInf THEN TRUE
    ELSE IF x = PosInf \/ y = NegInf THEN FALSE
    ELSE IF x[1] < 0 /\ y[1] >= 0 THEN TRUE
    ELSE IF x[1] >= 0 /\ y[1] < 0 THEN FALSE
    ELSE IF x[1] >= 0 THEN LessPos[x[1], x[2], y[1], y[2]]
    ELSE LessPos[-y[1], y[2], -x[1], x[2]]

\* x * y > 0 of JavaScript: both factors are non-zero numbers of one sign.
ProductPositive[x \in Number, y \in Number] ==
    ~IsNaN(x) /\ ~IsNaN(y) /\ Sgn(x) * Sgn(y) > 0

\* ------------------------------------------------------------------------
\* calculateIRR: the values computed by one iteration
\* ------------------------------------------------------------------------

\* The value calculateIRR returns when neither method converged.
Null == <<>>

\* npv after the first n cash flows: the sum of cashFlows[t] / (1 + r)^t.
Npv[flows \in Seq(Number), r \in Number, n \in Nat] ==
    IF n = 0 THEN Zero
    ELSE Add[Npv[flows, r, n - 1],
             Div[flows[n], Pow[Add[Num(1), r], n - 1]]]

\* dnpv after the first n cash flows: minus the sum of
\* t * cashFlows[t] / (1 + r)^(t + 1).
Dnpv[flows \in Seq(Number), r \in Number, n \in Nat] ==
    IF n = 0 THEN Zero
    ELSE Sub[Dnpv[flows, r, n - 1],
             Div[Mul[Num(n - 1), flows[n]], Pow[Add[Num(1), r], n]]]

\* The initial guess of the Newton-Raphson phase.
InitialRate == <<1, 100>>

\* The bracket of the bisection phase.
BisectionLow == <<-99, 100>>
BisectionHigh == Num(10)

\* The default of the tolerance parameter, 1e-7.
DefaultTolerance == <<1, 10000000>>

\* Math.abs(npv) < tolerance
ConvergedWithinTenfold(npv, tol) == LessThan[AbsNum[npv], Mul[tol, Num(10)]]

Converged(npv, tol) == LessThan[AbsNum[npv], tol]

\* Math.abs(dnpv) < tolerance
DerivativeTooSmall(dnpv, tol) == LessThan[AbsNum[dnpv], tol]

NewRate(r, npv, dnpv) == Sub[r, Div[npv, dnpv]]

\* The bounds check on the Newton-Raphson candidate.
ClampRateToBounds(newRate) ==
    IF LessThan[newRate, BisectionLow] THEN BisectionLow
    ELSE IF LessThan[BisectionHigh, newRate] THEN BisectionHigh
    ELSE newRate

ClampRate(newRate) ==
    IF LessThan[newRate, BisectionLow] THEN <<-1, 2>>
    ELSE IF LessThan[BisectionHigh, newRate] THEN Num(1)
    ELSE newRate

Midpoint(lo, hi) == Div[Add[lo, hi], Num(2)]

\* ------------------------------------------------------------------------
\* State
\* ------------------------------------------------------------------------

VARIABLES
    calcInputs,           \* the form's parameter object
    loanUtilization,      \* the utilization slider
    pc,                   \* position in calculateChitDetails
    i,                    \* loop counter of the month loop
    remainingMembers,
    carryOverPool,
    loanRepaymentDue,
    withdrawalSchedule,   \* MonthRecords pushed so far (reported fields)
    loanDetails,          \* LoanRecords pushed so far (reported fields)
    totalLoanAmount,
    totalInterestEarned,
    monthLocals,          \* unrounded locals of each executed iteration
    irrCalls,             \* number of calls of calculateIRR
    result,               \* the returned object
    \* a call of calculateIRR on its own
    irrPc,                \* position in calculateIRR
    cashFlows,            \* the parameters of the call
    maxIterations,
    tolerance,
    iter,                 \* loop counter of the phase under way
    rate,                 \* Newton-Raphson: the current rate
    low,                  \* bisection: the bracket
    high,
    irrResult             \* the returned value

chitVars == <<calcInputs, loanUtilization, pc, i, remainingMembers,
              carryOverPool, loanRepaymentDue, withdrawalSchedule, loanDetails,
              totalLoanAmount, totalInterestEarned, monthLocals, irrCalls,
              result>>

irrVars == <<irrPc, cashFlows, maxIterations, tolerance, iter, rate, low, high,
             irrResult>>

vars == <<chitVars, irrVars>>

\* ------------------------------------------------------------------------
\* Inputs
\* ------------------------------------------------------------------------

\* useState defaults of the form.
DefaultInputs ==
    [totalMembers |-> 20, monthlyContribution |-> 5000,
     firstWithdrawal |-> 80000, monthlyIncrement |-> 1000,
     commissionType |-> "monthly", commissionRate |-> 5,
     oneTimeCommission |-> 10000, loanInterestRate |-> 2]

DefaultLoanUtilization == 50

\* Small schemes.  Every number field of the form is parsed with
\* parseInt/parseFloat(...) || 0 and has no min/max, so zero and negative
\* values are inputs the program accepts.
SmallInputs ==
    [totalMembers : -1 .. MaxMembers,
     monthlyContribution : {0, 10, 20},
     firstWithdrawal : {-10, 0, 10, 30},
     monthlyIncrement : {-10, 0, 10},
     commissionType : {"monthly", "onetime"},
     commissionRate : {0, 50, 200},
     oneTimeCommission : {0, 12},
     loanInterestRate : {-300, 0, 50}]

\* The slider is a range input with min 0 and max 100.
SmallLoanUtilization == {0, 50, 100}

\* Schemes followed in floating-point arithmetic: valid parameters, member
\* counts up to 11, whole amounts that MantissaBits bits hold exactly, no
\* lending (FloatLoanUtilization), so that every operation of the loop body
\* on them either is exact or is a single rounded operation.
FloatInputs ==
    {[totalMembers |-> n, monthlyContribution |-> a[1],
      firstWithdrawal |-> a[2], monthlyIncrement |-> inc,
      commissionType |-> t, commissionRate |-> r,
      oneTimeCommission |-> 0, loanInterestRate |-> l] :
        n \in {0, 1, 2, 3, 11}, a \in {<<100, 100>>, <<500, 1250>>},
        inc \in {0, 10}, t \in {"monthly", "onetime"}, r \in {0, 5},
        l \in {0, 2}}

FloatLoanUtilization == 0

\* Parameters of calculateIRR.  The iteration budget and the tolerance are
\* parameters of the function (defaults 100 and 1e-7).  The arithmetic being
\* exact, a call is followed for a few iterations only: the calls below pass
\* budgets within which the iterates' denominators stay in TLC's integers.
\* A call that returns a rate within its budget returns the same rate under
\* every larger budget, the default included.
FlowAmounts == {Num(-10), Zero, Num(10)}

\* Amounts below the default tolerance.
TinyAmounts == {<<-1, 20000000>>, <<1, 20000000>>}

ShortCashFlows ==
    UNION {[1 .. n -> FlowAmounts] : n \in 0 .. 2}
        \cup {<<a>> : a \in TinyAmounts} \cup {<<a, a>> : a \in TinyAmounts}

LongCashFlows == [1 .. 3 -> FlowAmounts]

\* One unit lent for one period at the rate 0: Newton-Raphson reaches the
\* default tolerance in its third iteration.
UnitLoanAtZero == <<Num(-1), Num(1)>>

\* Two units lent for one period at the rate 4.505, the first midpoint of
\* the bisection.
LoanAtFirstMidpoint == <<Num(-2), Num(11)>>

\* 100 units lent for three periods at the rate 0.01, the initial guess.
LoanAtInitialRate == <<Num(-100), Zero, Zero, <<1030301, 10000>>>>

\* Cash flows whose rate of return is 1 and whose derivative at the initial
\* guess is nearly 0: the first candidate is above 10, the rate is reset to 1
\* and the second iteration returns it.
OvershootThenRoot == <<Num(301), Num(-804), Num(404)>>

\* The calls followed: <<cashFlows, maxIterations>>.
SmallIrrCalls ==
    (ShortCashFlows \X {0, 1, 2})
        \cup (LongCashFlows \X {0, 1})
        \cup {<<UnitLoanAtZero, 3>>, <<LoanAtFirstMidpoint, 1>>,
              <<LoanAtInitialRate, 1>>, <<OvershootThenRoot, 2>>}

SmallTolerances == {DefaultTolerance, <<1, 100>>}


\* ------------------------------------------------------------------------
\* calculateChitDetails: values computed before the loop
\* ------------------------------------------------------------------------

\* Variant of the guard that lets a member count of zero through.
IsDegenerateNegativeOnly(p) == p.totalMembers < 0

IsDegenerate(p) == p.totalMembers <= 0

Duration(p) == p.totalMembers

TotalPool(p) == Num(p.totalMembers * p.monthlyContribution)

CommissionPerMonth(p) ==
    IF p.commissionType = "monthly"
    THEN Div[Mul[TotalPool(p), Num(p.commissionRate)], Num(100)]
    ELSE Div[Num(p.oneTimeCommission), Num(Duration(p))]

TotalCommission(p) ==
    IF p.commissionType = "monthly"
    THEN Mul[CommissionPerMonth(p), Num(Duration(p))]
    ELSE Num(p.oneTimeCommission)

NetPoolPerMonth(p) == Sub[TotalPool(p), CommissionPerMonth(p)]

\* ------------------------------------------------------------------------
\* calculateChitDetails: one iteration of the month loop
\* ------------------------------------------------------------------------

\* Variant of the loop condition that stops one month short.
LoopContinuesOneLess(k, duration, remaining) ==
    k < duration - 1 /\ Lt[Zero, remaining]

\* Variant of the loop condition that admits one month too many.
LoopContinuesOneMore(k, duration, remaining) ==
    k <= duration /\ Lt[Zero, remaining]

\* Variant that goes on while months are left, members waiting or not.
LoopContinuesWithoutMembers(k, duration, remaining) == k < duration

LoopContinues(k, duration, remaining) == k < duration /\ Lt[Zero, remaining]

\* Variant that adds the increment once instead of once per elapsed month.
WithdrawalAmountNoEscalation(p, k) ==
    Add[Num(p.firstWithdrawal), Num(p.monthlyIncrement)]

\* Variant that escalates from the first month on (index off by one).
WithdrawalAmountOffByOne(p, k) ==
    Add[Num(p.firstWithdrawal), Mul[Num(p.monthlyIncrement), Num(k + 1)]]

WithdrawalAmount(p, k) ==
    Add[Num(p.firstWithdrawal), Mul[Num(p.monthlyIncrement), Num(k)]]

\* Variant that forgets the loan repayment due.
EffectiveCarryOverWithoutRepayment(carry, repayment) == carry

EffectiveCarryOver(carry, repayment) == Add[carry, repayment]

IsLastMonth(totalRequired, availablePool) == Lt[totalRequired, availablePool]

\* Variant that counts a withdrawal the pool covers only in part.
MaxWithdrawalsBasedOnPoolRoundedUp(availablePool, withdrawalAmount, prec) ==
    Add[Floor[Fl[prec, Div[availablePool, withdrawalAmount]]], Num(1)]

MaxWithdrawalsBasedOnPool(availablePool, withdrawalAmount, prec) ==
    Floor[Fl[prec, Div[availablePool, withdrawalAmount]]]

\* Variant that pays as many members as the pool covers, waiting or not.
ActualWithdrawalsUncapped(maxWithdrawals, remaining) == maxWithdrawals

ActualWithdrawals(maxWithdrawals, remaining) == MathMin[maxWithdrawals, remaining]

\* Variant that lends the residual pool of a settlement month as well.
LoanIssuedInSettlementToo(isLastMonth, remainingPool) == Lt[Zero, remainingPool]

\* Variant that lends an empty pool as well.
LoanIssuedFromEmptyPool(isLastMonth, remainingPool) ==
    ~isLastMonth /\ Le[Zero, remainingPool]

LoanIssued(isLastMonth, remainingPool) == ~isLastMonth /\ Lt[Zero, remainingPool]

\* Variant that takes the utilization as a factor instead of a percentage.
LoanAmountAsFactor(remainingPool, utilization) ==
    Mul[remainingPool, Num(utilization)]

\* Variant that lends the whole remaining pool.
LoanAmountWholePool(remainingPool, utilization) == remainingPool

LoanAmount(remainingPool, utilization) ==
    Div[Mul[remainingPool, Num(utilization)], Num(100)]

InterestEarned(loanAmount, interestRate) ==
    Div[Mul[loanAmount, Num(interestRate)], Num(100)]

\* Variant that keeps the lent amount in the carry-over.
NextCarryOverPoolKeepsLoan(remainingPool, loanAmount) == remainingPool

\* Variant that carries the reported (rounded) amounts over.
NextCarryOverPoolRounded(remainingPool, loanAmount) ==
    Sub[Round[remainingPool], Round[loanAmount]]

\* Variant that takes the lent amount out of the pool twice.
NextCarryOverPoolLoanTwice(remainingPool, loanAmount) ==
    Sub[Sub[remainingPool, loanAmount], loanAmount]

NextCarryOverPool(remainingPool, loanAmount) == Sub[remainingPool, loanAmount]

\* Variant that counts one served member per paying month.
NextRemainingMembersOnePerMonth(remaining, actualWithdrawals) ==
    IF Lt[Zero, actualWithdrawals] THEN Sub[remaining, Num(1)] ELSE remaining

NextRemainingMembers(remaining, actualWithdrawals) == Sub[remaining, actualWithdrawals]

\* The locals of iteration k, before Math.round, in the order the loop body
\* computes them from the state entering the iteration.  Each operator below
\* adds the locals of a few lines of the body to the record of those computed
\* so far.  The result of every operation is rounded to m.precision mantissa
\* bits (0: exact arithmetic).

\* withdrawalAmount, effectiveCarryOver and the values the body reads.
MonthEntry(p, utilization, k, remaining, carry, repayment, prec) ==
    [month |-> k + 1,
     precision |-> prec,
     carryIn |-> carry,
     repaymentIn |-> repayment,
     membersBefore |-> remaining,
     utilization |-> utilization,
     loanInterestRate |-> p.loanInterestRate,
     totalMembers |-> Num(p.totalMembers),
     monthlyContribution |-> Num(p.monthlyContribution),
     commissionPerMonth |-> Fl[prec, CommissionPerMonth(p)],
     netPoolPerMonth |-> Fl[prec, NetPoolPerMonth(p)],
     withdrawalAmount |-> Fl[prec, WithdrawalAmount(p, k)],
     effectiveCarryOver |-> Fl[prec, EffectiveCarryOver(carry, repayment)]]

\* totalRequiredForRemainingMembers, isLastMonth, requiredNet
WithSettlementTest(m) ==
    m @@ [totalRequired |->
              Fl[m.precision, Mul[m.membersBefore, m.withdrawalAmount]],
          isLastMonth |->
              IsLastMonth(Fl[m.precision, Mul[m.membersBefore, m.withdrawalAmount]],
                          Fl[m.precision, Add[m.netPoolPerMonth, m.effectiveCarryOver]]),
          requiredNet |->
              Fl[m.precision,
                 Sub[Fl[m.precision, Mul[m.membersBefore, m.withdrawalAmount]],
                     m.effectiveCarryOver]]]

\* contributionPerMember
WithContribution(m) ==
    m @@ [contributionPerMember |->
              IF ~m.isLastMonth THEN m.monthlyContribution
              ELSE IF Le[m.requiredNet, Zero] THEN Zero
              ELSE Fl[m.precision,
                      Div[Fl[m.precision, Add[m.requiredNet, m.commissionPerMonth]],
                          m.totalMembers]]]

\* currentMonthContribution
WithNewContributions(m) ==
    m @@ [currentMonthContribution |->
              IF ~m.isLastMonth THEN m.netPoolPerMonth
              ELSE IF Le[m.requiredNet, Zero] THEN Zero
              ELSE Fl[m.precision,
                      Sub[Fl[m.precision, Mul[m.contributionPerMember, m.totalMembers]],
                          m.commissionPerMonth]]]

\* availablePool
WithAvailablePool(m) ==
    m @@ [availablePool |->
              IF ~m.isLastMonth
              THEN Fl[m.precision, Add[m.netPoolPerMonth, m.effectiveCarryOver]]
              ELSE IF Le[m.requiredNet, Zero] THEN m.effectiveCarryOver
              ELSE Fl[m.precision,
                      Add[m.currentMonthContribution, m.effectiveCarryOver]]]

\* maxWithdrawalsBasedOnPool
WithMaxWithdrawals(m) ==
    m @@ [maxWithdrawalsBasedOnPool |->
              MaxWithdrawalsBasedOnPool(m.availablePool, m.withdrawalAmount,
                                        m.precision)]

\* actualWithdrawals
WithActualWithdrawals(m) ==
    m @@ [actualWithdrawals |->
              ActualWithdrawals(m.maxWithdrawalsBasedOnPool, m.membersBefore)]

\* totalWithdrawn
WithTotalWithdrawn(m) ==
    m @@ [totalWithdrawn |->
              Fl[m.precision, Mul[m.withdrawalAmount, m.actualWithdrawals]]]

\* remainingPool
WithRemainingPool(m) ==
    m @@ [remainingPool |->
              Fl[m.precision, Sub[m.availablePool, m.totalWithdrawn]]]

\* the condition of the loan branch
WithLoanIssued(m) ==
    m @@ [loanIssued |-> LoanIssued(m.isLastMonth, m.remainingPool)]

\* loanAmount
WithLoanAmount(m) ==
    m @@ [loanAmount |->
              IF m.loanIssued
              THEN Fl[m.precision, LoanAmount(m.remainingPool, m.utilization)]
              ELSE Zero]

\* interestEarned
WithInterestEarned(m) ==
    m @@ [interestEarned |->
              IF m.loanIssued
              THEN Fl[m.precision,
                      InterestEarned(m.loanAmount, m.loanInterestRate)]
              ELSE Zero]

\* nextMonthRepayment and the state left to the next iteration
WithNextState(m) ==
    m @@ [nextMonthRepayment |->
              IF m.loanIssued
              THEN Fl[m.precision, Add[m.loanAmount, m.interestEarned]]
              ELSE Zero,
          carryOut |->
              Fl[m.precision, NextCarryOverPool(m.remainingPool, m.loanAmount)],
          membersAfter |-> NextRemainingMembers(m.membersBefore, m.actualWithdrawals)]

\* The loop body as a whole.  Every local is computed once and then read as
\* a value, as in the code: the singleton sets bind each intermediate record.
MonthCalc(p, utilization, k, remaining, carry, repayment, prec) ==
    CHOOSE m \in
        {WithNextState(m12) : m12 \in
        {WithInterestEarned(m11) : m11 \in
        {WithLoanAmount(m10) : m10 \in
        {WithLoanIssued(m9) : m9 \in
        {WithRemainingPool(m8) : m8 \in
        {WithTotalWithdrawn(m7) : m7 \in
        {WithActualWithdrawals(m6) : m6 \in
        {WithMaxWithdrawals(m5) : m5 \in
        {WithAvailablePool(m4) : m4 \in
        {WithNewContributions(m3) : m3 \in
        {WithContribution(m2) : m2 \in
        {WithSettlementTest(m1) : m1 \in
        {MonthEntry(p, utilization, k, remaining, carry, repayment, prec)}}}}}}}}}}}}} :
        TRUE

\* The object pushed onto withdrawalSchedule.
MonthRecord(m) ==
    [month |-> m.month,
     withdrawalAmount |-> Round[m.withdrawalAmount],
     contributionPerMember |-> Round[m.contributionPerMember],
     newContributions |-> Round[m.currentMonthContribution],
     carryOverFromPrevious |-> Round[m.effectiveCarryOver],
     availablePool |-> Round[m.availablePool],
     actualWithdrawals |-> m.actualWithdrawals,
     totalWithdrawn |-> Round[m.totalWithdrawn],
     remainingPool |-> Round[m.remainingPool],
     remainingMembersAfter |-> m.membersAfter,
     isLastMonth |-> m.isLastMonth]

\* The object pushed onto loanDetails.
LoanRecord(p, m) ==
    [month |-> m.month,
     availableForLoan |-> Round[m.remainingPool],
     loanAmount |-> Round[m.loanAmount],
     interestRate |-> p.loanInterestRate,
     interestEarned |-> Round[m.interestEarned],
     repaymentDue |-> Round[m.nextMonthRepayment]]

\* ------------------------------------------------------------------------
\* calculateChitDetails: member returns and the returned object
\* ------------------------------------------------------------------------

RECURSIVE SumContribution(_, _)
SumContribution(schedule, k) ==
    IF k = 0 THEN Zero
    ELSE Add[SumContribution(schedule, k - 1), schedule[k].contributionPerMember]

\* withdrawalSchedule.reduce((sum, s) => sum + s.contributionPerMember, 0)
TotalContributionForAllMembers(schedule) == SumContribution(schedule, Len(schedule))

\* Number of passes of "for (let i = 0; i < schedule.actualWithdrawals; i++)".
\* (actualWithdrawals is never +Infinity: the loop does not run away.)
WithdrawCountAtMostOne(actualWithdrawals) ==
    IF IsFinite(actualWithdrawals) /\ actualWithdrawals[1] > 0
    THEN 1 ELSE 0

WithdrawCount(actualWithdrawals) ==
    IF IsFinite(actualWithdrawals) /\ actualWithdrawals[1] > 0
    THEN actualWithdrawals[1] ELSE 0

\* Position in the schedule of the record each member withdraws in, in the
\* order the nested loops meet the members.
RECURSIVE WithdrawalOrder(_, _)
WithdrawalOrder(schedule, k) ==
    IF k > Len(schedule) THEN <<>>
    ELSE [j \in 1 .. WithdrawCount(schedule[k].actualWithdrawals) |-> k]
         \o WithdrawalOrder(schedule, k + 1)

\* The array passed to calculateIRR for a member withdrawing in record rec
\* (the loop variable month is 0-based, schedule.month is 1-based).
CashFlowsZeroBasedMonth(schedule, rec) ==
    [m \in 1 .. Len(schedule) |->
        IF m - 1 = rec.month
        THEN Add[rec.withdrawalAmount, Neg[schedule[m].contributionPerMember]]
        ELSE Neg[schedule[m].contributionPerMember]]

CashFlows(schedule, rec) ==
    [m \in 1 .. Len(schedule) |->
        IF m = rec.month
        THEN Add[rec.withdrawalAmount, Neg[schedule[m].contributionPerMember]]
        ELSE Neg[schedule[m].contributionPerMember]]

\* Variant that does not charge the contributions.
NetReturnGross(rec, total) == rec.withdrawalAmount

NetReturn(rec, total) == Sub[rec.withdrawalAmount, total]

ReturnPercent(netReturn, total) == Mul[Div[netReturn, total], Num(100)]

\* What a call of calculateIRR made by calculateChitDetails returns.  The call
\* runs with the default budget of 100 + 100 iterations, which exact
\* arithmetic cannot follow: every value of the return type number | null is
\* allowed for, a rate being one of the two the bounds check resets to.
IrrResults == {Null, <<-1, 2>>, Num(1)}

\* Variant that computes with a null rate, which arithmetic reads as 0.
AnnualizedIRRNullAsZero(monthlyIRR) ==
    Mul[Sub[Pow[Add[Num(1), IF monthlyIRR = Null THEN Zero ELSE monthlyIRR], 12],
            Num(1)],
        Num(100)]

AnnualizedIRR(monthlyIRR) ==
    IF monthlyIRR # Null
    THEN Mul[Sub[Pow[Add[Num(1), monthlyIRR], 12], Num(1)], Num(100)]
    ELSE Null

MonthlyIRRPercent(monthlyIRR) ==
    IF monthlyIRR # Null THEN Mul[monthlyIRR, Num(100)] ELSE Null

\* The object pushed onto memberReturns, with the cash flows passed to
\* calculateIRR; monthlyIRR is what that call returned.
MemberReturn(schedule, rec, memberNumber, total, monthlyIRR) ==
    [member |-> memberNumber,
     withdrawalMonth |-> rec.month,
     totalContribution |-> Round[total],
     withdrawal |-> rec.withdrawalAmount,
     netReturn |-> Round[NetReturn(rec, total)],
     returnPercent |-> ReturnPercent(NetReturn(rec, total), total),
     monthlyIRR |-> MonthlyIRRPercent(monthlyIRR),
     annualizedIRR |-> AnnualizedIRR(monthlyIRR),
     cashFlows |-> CashFlows(schedule, rec)]

\* irr[k] is the value calculateIRR returns for the cash flows of a member
\* withdrawing in the k-th record (members of one record have the same cash
\* flows).
MemberReturnsInOrder(schedule, order, total, irr) ==
    [n \in 1 .. Len(order) |->
        MemberReturn(schedule, schedule[order[n]], n, total, irr[order[n]])]

MemberReturns(schedule, irr) ==
    MemberReturnsInOrder(schedule, WithdrawalOrder(schedule, 1),
                         TotalContributionForAllMembers(schedule), irr)

\* The object returned by the totalMembers <= 0 guard.
DegenerateResult ==
    [duration |-> 0, totalPool |-> Zero, commissionPerMonth |-> Zero,
     totalCommission |-> Zero, netPoolPerMonth |-> Zero,
     withdrawalSchedule |-> <<>>, totalMembersServed |-> Zero,
     finalCarryOver |-> Zero, loanDetails |-> <<>>,
     totalLoanAmount |-> Zero, totalInterestEarned |-> Zero,
     memberReturns |-> <<>>]

\* The object returned after the loop; schedule is not empty.
FinalResult(p, schedule, loans, loanTotal, interestTotal, irr) ==
    [duration |-> Len(schedule),
     totalPool |-> TotalPool(p),
     commissionPerMonth |-> Round[CommissionPerMonth(p)],
     totalCommission |-> Round[TotalCommission(p)],
     netPoolPerMonth |-> NetPoolPerMonth(p),
     withdrawalSchedule |-> schedule,
     totalMembersServed |->
         Sub[Num(p.totalMembers), schedule[Len(schedule)].remainingMembersAfter],
     finalCarryOver |-> schedule[Len(schedule)].remainingPool,
     loanDetails |-> loans,
     totalLoanAmount |-> Round[loanTotal],
     totalInterestEarned |-> Round[interestTotal],
     memberReturns |-> MemberReturns(schedule, irr)]

\* ------------------------------------------------------------------------
\* The state machine
\* ------------------------------------------------------------------------

\* Runs of schemes larger than the enumerated ones are followed for
\* MaxDefaultMonths months only.
WithinFollowedMonths(p, k) == p.totalMembers > MaxMembers => k < MaxDefaultMonths

\* No call of calculateIRR on its own is under way.
NoIrrCall ==
    /\ irrPc = "idle"
    /\ cashFlows = <<>>
    /\ maxIterations = 0
    /\ tolerance = DefaultTolerance
    /\ iter = 0
    /\ rate = InitialRate
    /\ low = BisectionLow
    /\ high = BisectionHigh
    /\ irrResult = Null

Init ==
    /\ \/ calcInputs \in SmallInputs /\ loanUtilization \in SmallLoanUtilization
       \/ calcInputs = DefaultInputs /\ loanUtilization = DefaultLoanUtilization
    /\ pc = "start"
    /\ i = 0
    /\ remainingMembers = Zero
    /\ carryOverPool = Zero
    /\ loanRepaymentDue = Zero
    /\ withdrawalSchedule = <<>>
    /\ loanDetails = <<>>
    /\ totalLoanAmount = Zero
    /\ totalInterestEarned = Zero
    /\ monthLocals = <<>>
    /\ irrCalls = 0
    /\ result = <<>>
    /\ NoIrrCall

\* The totalMembers <= 0 guard returns at once.
ReturnDegenerate ==
    /\ pc = "start"
    /\ IsDegenerate(calcInputs)
    /\ pc' = "done"
    /\ result' = DegenerateResult
    /\ UNCHANGED <<calcInputs, loanUtilization, i, remainingMembers,
                   carryOverPool, loanRepaymentDue, withdrawalSchedule,
                   loanDetails, totalLoanAmount, totalInterestEarned,
                   monthLocals, irrCalls>>
    /\ UNCHANGED irrVars

\* Initialisation of the loop state.
Begin ==
    /\ pc = "start"
    /\ ~IsDegenerate(calcInputs)
    /\ pc' = "loop"
    /\ i' = 0
    /\ remainingMembers' = Num(calcInputs.totalMembers)
    /\ carryOverPool' = Zero
    /\ loanRepaymentDue' = Zero
    /\ withdrawalSchedule' = <<>>
    /\ loanDetails' = <<>>
    /\ totalLoanAmount' = Zero
    /\ totalInterestEarned' = Zero
    /\ UNCHANGED <<calcInputs, loanUtilization, monthLocals, irrCalls, result>>
    /\ UNCHANGED irrVars

\* One iteration of the month loop, the break at its end included, in
\* arithmetic of prec mantissa bits.
MonthStepAt(prec) ==
    /\ pc = "loop"
    /\ LoopContinues(i, Duration(calcInputs), remainingMembers)
    /\ WithinFollowedMonths(calcInputs, i)
    /\ \E m \in {MonthCalc(calcInputs, loanUtilization, i, remainingMembers,
                           carryOverPool, loanRepaymentDue, prec)} :
           /\ totalLoanAmount' = Fl[prec, Add[totalLoanAmount, m.loanAmount]]
           /\ totalInterestEarned' =
                  Fl[prec, Add[totalInterestEarned, m.interestEarned]]
           /\ loanDetails' = IF m.loanIssued
                             THEN Append(loanDetails, LoanRecord(calcInputs, m))
                             ELSE loanDetails
           /\ carryOverPool' = m.carryOut
           /\ loanRepaymentDue' = m.nextMonthRepayment
           /\ remainingMembers' = m.membersAfter
           /\ withdrawalSchedule' = Append(withdrawalSchedule, MonthRecord(m))
           /\ monthLocals' = Append(monthLocals, m)
           /\ IF StrictEq[m.membersAfter, Zero]
              THEN pc' = "analyze" /\ i' = i
              ELSE pc' = "loop" /\ i' = i + 1
    /\ UNCHANGED <<calcInputs, loanUtilization, irrCalls, result>>
    /\ UNCHANGED irrVars

\* The iteration in exact arithmetic.
MonthStep == MonthStepAt(0)

\* The loop condition fails.
LoopExit ==
    /\ pc = "loop"
    /\ ~LoopContinues(i, Duration(calcInputs), remainingMembers)
    /\ pc' = "analyze"
    /\ UNCHANGED <<calcInputs, loanUtilization, i, remainingMembers,
                   carryOverPool, loanRepaymentDue, withdrawalSchedule,
                   loanDetails, totalLoanAmount, totalInterestEarned,
                   monthLocals, irrCalls, result>>
    /\ UNCHANGED irrVars

\* Member returns and the return statement.  Reading the last record of an
\* empty schedule throws a TypeError.
Return ==
    /\ pc = "analyze"
    /\ IF Len(withdrawalSchedule) = 0
       THEN /\ pc' = "error"
            /\ UNCHANGED <<irrCalls, result>>
       ELSE /\ pc' = "done"
            /\ \E irr \in [1 .. Len(withdrawalSchedule) -> IrrResults] :
                   result' = FinalResult(calcInputs, withdrawalSchedule,
                                         loanDetails, totalLoanAmount,
                                         totalInterestEarned, irr)
            /\ irrCalls' = irrCalls + Len(WithdrawalOrder(withdrawalSchedule, 1))
    /\ UNCHANGED <<calcInputs, loanUtilization, i, remainingMembers,
                   carryOverPool, loanRepaymentDue, withdrawalSchedule,
                   loanDetails, totalLoanAmount, totalInterestEarned,
                   monthLocals>>
    /\ UNCHANGED irrVars

Next == ReturnDegenerate \/ Begin \/ MonthStep \/ LoopExit \/ Return

Spec == Init /\ [][Next]_vars

\* calculateChitDetails is a synchronous function: once called it runs on
\* until it returns or throws.
FairSpec == Spec /\ WF_vars(Next)

\* ------------------------------------------------------------------------
\* calculateIRR as a state machine: one step per loop iteration
\* ------------------------------------------------------------------------

\* No call of calculateChitDetails is under way.
NoChitCall ==
    /\ calcInputs = DefaultInputs
    /\ loanUtilization = DefaultLoanUtilization
    /\ pc = "idle"
    /\ i = 0
    /\ remainingMembers = Zero
    /\ carryOverPool = Zero
    /\ loanRepaymentDue = Zero
    /\ withdrawalSchedule = <<>>
    /\ loanDetails = <<>>
    /\ totalLoanAmount = Zero
    /\ totalInterestEarned = Zero
    /\ monthLocals = <<>>
    /\ irrCalls = 0
    /\ result = <<>>

\* Entry of calculateIRR: rate = 0.01 and the first loop about to start.
IrrInit ==
    /\ NoChitCall
    /\ \E call \in SmallIrrCalls :
           cashFlows = call[1] /\ maxIterations = call[2]
    /\ tolerance \in SmallTolerances
    /\ irrPc = "newton"
    /\ iter = 0
    /\ rate = InitialRate
    /\ low = BisectionLow
    /\ high = BisectionHigh
    /\ irrResult = Null

\* One iteration of the Newton-Raphson loop: return the rate, break out of
\* the loop, or go on with the clamped candidate.
NewtonIterate ==
    /\ irrPc = "newton"
    /\ iter < maxIterations
    /\ \E npv \in {Npv[cashFlows, rate, Len(cashFlows)]} :
         IF Converged(npv, tolerance)
         THEN /\ irrPc' = "done"
              /\ irrResult' = rate
              /\ UNCHANGED <<iter, rate>>
         ELSE \E dnpv \in {Dnpv[cashFlows, rate, Len(cashFlows)]} :
                IF DerivativeTooSmall(dnpv, tolerance)
                THEN /\ irrPc' = "bisect"
                     /\ iter' = 0
                     /\ UNCHANGED <<rate, irrResult>>
                ELSE /\ rate' = ClampRate(NewRate(rate, npv, dnpv))
                     /\ iter' = iter + 1
                     /\ UNCHANGED <<irrPc, irrResult>>
    /\ UNCHANGED <<cashFlows, maxIterations, tolerance, low, high>>
    /\ UNCHANGED chitVars

\* The Newton-Raphson loop has used up maxIterations.
NewtonExhausted ==
    /\ irrPc = "newton"
    /\ iter >= maxIterations
    /\ irrPc' = "bisect"
    /\ iter' = 0
    /\ UNCHANGED <<cashFlows, maxIterations, tolerance, rate, low, high,
                   irrResult>>
    /\ UNCHANGED chitVars

\* One iteration of the bisection loop: return the midpoint or halve the
\* bracket.
BisectIterate ==
    /\ irrPc = "bisect"
    /\ iter < maxIterations
    /\ \E mid \in {Midpoint(low, high)} :
         \E npv \in {Npv[cashFlows, mid, Len(cashFlows)]} :
           IF Converged(npv, tolerance)
           THEN /\ irrPc' = "done"
                /\ irrResult' = mid
                /\ UNCHANGED <<iter, low, high>>
           ELSE /\ IF ProductPositive[Npv[cashFlows, low, Len(cashFlows)], npv]
                   THEN low' = mid /\ high' = high
                   ELSE high' = mid /\ low' = low
                /\ iter' = iter + 1
                /\ UNCHANGED <<irrPc, irrResult>>
    /\ UNCHANGED <<cashFlows, maxIterations, tolerance, rate>>
    /\ UNCHANGED chitVars

\* The bisection loop has used up maxIterations: return null.
BisectExhausted ==
    /\ irrPc = "bisect"
    /\ iter >= maxIterations
    /\ irrPc' = "done"
    /\ irrResult' = Null
    /\ UNCHANGED <<cashFlows, maxIterations, tolerance, iter, rate, low, high>>
    /\ UNCHANGED chitVars

IrrNext == NewtonIterate \/ NewtonExhausted \/ BisectIterate \/ BisectExhausted

IrrSpec == IrrInit /\ [][IrrNext]_vars

\* calculateIRR is a synchronous function: once called it runs on until it
\* returns.
IrrFairSpec == IrrSpec /\ WF_vars(IrrNext)

\* ------------------------------------------------------------------------
\* calculateChitDetails in floating-point arithmetic
\* ------------------------------------------------------------------------

\* The call as above, the arithmetic of the loop body rounding each result to
\* MantissaBits mantissa bits.
FloatInit ==
    /\ calcInputs \in FloatInputs
    /\ loanUtilization = FloatLoanUtilization
    /\ pc = "start"
    /\ i = 0
    /\ remainingMembers = Zero
    /\ carryOverPool = Zero
    /\ loanRepaymentDue = Zero
    /\ withdrawalSchedule = <<>>
    /\ loanDetails = <<>>
    /\ totalLoanAmount = Zero
    /\ totalInterestEarned = Zero
    /\ monthLocals = <<>>
    /\ irrCalls = 0
    /\ result = <<>>
    /\ NoIrrCall

FloatMonthStep == MonthStepAt(MantissaBits)

FloatNext == ReturnDegenerate \/ Begin \/ FloatMonthStep \/ LoopExit \/ Return

FloatSpec == FloatInit /\ [][FloatNext]_vars

\* ------------------------------------------------------------------------
\* The second copy of calculateChitDetails (src/unnamed/part_001)
\* ------------------------------------------------------------------------

\* The copy has the same month loop; it has no totalMembers <= 0 guard and
\* no member returns.

\* The object returned by the copy; schedule is not empty.
LegacyResult(p, schedule, loans, loanTotal, interestTotal) ==
    [duration |-> Len(schedule),
     totalPool |-> TotalPool(p),
     commissionPerMonth |-> Round[CommissionPerMonth(p)],
     totalCommission |-> Round[TotalCommission(p)],
     netPoolPerMonth |-> NetPoolPerMonth(p),
     withdrawalSchedule |-> schedule,
     totalMembersServed |->
         Sub[Num(p.totalMembers), schedule[Len(schedule)].remainingMembersAfter],
     finalCarryOver |-> schedule[Len(schedule)].remainingPool,
     loanDetails |-> loans,
     totalLoanAmount |-> Round[loanTotal],
     totalInterestEarned |-> Round[interestTotal]]

\* Initialisation of the loop state, whatever totalMembers is.
LegacyBegin ==
    /\ pc = "start"
    /\ pc' = "loop"
    /\ i' = 0
    /\ remainingMembers' = Num(calcInputs.totalMembers)
    /\ carryOverPool' = Zero
    /\ loanRepaymentDue' = Zero
    /\ withdrawalSchedule' = <<>>
    /\ loanDetails' = <<>>
    /\ totalLoanAmount' = Zero
    /\ totalInterestEarned' = Zero
    /\ UNCHANGED <<calcInputs, loanUtilization, monthLocals, irrCalls, result>>
    /\ UNCHANGED irrVars

\* The return statement.  Reading the last record of an empty schedule
\* throws a TypeError.
LegacyReturn ==
    /\ pc = "analyze"
    /\ IF Len(withdrawalSchedule) = 0
       THEN /\ pc' = "error"
            /\ UNCHANGED result
       ELSE /\ pc' = "done"
            /\ result' = LegacyResult(calcInputs, withdrawalSchedule,
                                      loanDetails, totalLoanAmount,
                                      totalInterestEarned)
    /\ UNCHANGED <<calcInputs, loanUtilization, i, remainingMembers,
                   carryOverPool, loanRepaymentDue, withdrawalSchedule,
                   loanDetails, totalLoanAmount, totalInterestEarned,
                   monthLocals, irrCalls>>
    /\ UNCHANGED irrVars

LegacyNext == LegacyBegin \/ MonthStep \/ LoopExit \/ LegacyReturn

LegacySpec == Init /\ [][LegacyNext]_vars

\* ------------------------------------------------------------------------
\* Properties
\* ------------------------------------------------------------------------

\* The parameters the specification calls valid: a positive member count, a
\* non-negative contribution, a commission between 0 and the pool, a positive
\* withdrawal amount in every month of the duration, utilization in 0..100.
ValidParameters ==
    /\ calcInputs.totalMembers > 0
    /\ calcInputs.monthlyContribution >= 0
    /\ Le[Zero, CommissionPerMonth(calcInputs)]
    /\ Le[CommissionPerMonth(calcInputs), TotalPool(calcInputs)]
    /\ \A k \in 0 .. calcInputs.totalMembers - 1 :
           Lt[Zero, WithdrawalAmount(calcInputs, k)]
    /\ loanUtilization \in 0 .. 100

RECURSIVE SumActualWithdrawals(_, _)
SumActualWithdrawals(schedule, k) ==
    IF k = 0 THEN Zero
    ELSE Add[SumActualWithdrawals(schedule, k - 1), schedule[k].actualWithdrawals]

\* C1: for valid parameters the actualWithdrawals of the returned schedule sum
\* to totalMembersServed, and totalMembersServed is at most totalMembers.
C1_WithdrawalsSumToServed ==
    (pc = "done" /\ ValidParameters) =>
        /\ StrictEq[SumActualWithdrawals(result.withdrawalSchedule,
                                         Len(result.withdrawalSchedule)),
                    result.totalMembersServed]
        /\ Le[result.totalMembersServed, Num(calcInputs.totalMembers)]

\* A valid run that paid two members in one month and left a member unserved.
C1_Witness ==
    /\ pc = "done" /\ ValidParameters
    /\ \E k \in 1 .. Len(withdrawalSchedule) :
           Le[Num(2), withdrawalSchedule[k].actualWithdrawals]
    /\ Lt[result.totalMembersServed, Num(calcInputs.totalMembers)]

C2_Bounds ==
    calcInputs.totalMembers > 0 =>
        /\ Len(withdrawalSchedule) <= calcInputs.totalMembers
        /\ \A k \in 1 .. Len(withdrawalSchedule) : withdrawalSchedule[k].month = k
        /\ pc = "loop" => Len(withdrawalSchedule) = i
        /\ pc \in {"analyze", "done"} => Len(withdrawalSchedule) >= 1
        /\ pc = "done" =>
              /\ result.duration = Len(withdrawalSchedule)
              /\ result.duration \in 1 .. calcInputs.totalMembers
        /\ pc # "error"

\* C2: with totalMembers > 0 the loop runs at least once and at most
\* totalMembers times, whatever the other parameters, and the call returns;
\* the records carry the month indices 1, 2, ... without gaps; the reported
\* duration is the number of records.  (Termination is checked for the
\* schemes the model follows to their end.)
C2_LoopBounded ==
    /\ []C2_Bounds
    /\ (pc = "start" /\ calcInputs.totalMembers \in 1 .. MaxMembers) ~> (pc = "done")

\* A run that used all totalMembers iterations, and more than one.
C2_Witness ==
    /\ pc = "done"
    /\ calcInputs.totalMembers >= 2
    /\ result.duration = calcInputs.totalMembers

\* C3: with totalMembers <= 0 the call returns, without an error, duration 0,
\* all aggregates 0 and empty sequences, and neither the month loop nor
\* calculateIRR has run.
C3_DegenerateResult ==
    calcInputs.totalMembers <= 0 =>
        /\ pc \in {"start", "done"}
        /\ pc = "start" => ENABLED Next
        /\ monthLocals = <<>> /\ withdrawalSchedule = <<>> /\ irrCalls = 0
        /\ pc = "done" =>
              /\ result.duration = 0
              /\ result.totalPool = Zero
              /\ result.commissionPerMonth = Zero
              /\ result.totalCommission = Zero
              /\ result.netPoolPerMonth = Zero
              /\ result.totalMembersServed = Zero
              /\ result.finalCarryOver = Zero
              /\ result.totalLoanAmount = Zero
              /\ result.totalInterestEarned = Zero
              /\ result.withdrawalSchedule = <<>>
              /\ result.loanDetails = <<>>
              /\ result.memberReturns = <<>>

\* A returned call with no members, parameters that would otherwise give a
\* non-zero pool.
C3_Witness ==
    /\ pc = "done"
    /\ calcInputs.totalMembers = 0
    /\ calcInputs.monthlyContribution > 0

\* C4: the carryOverPool entering iteration n+1 is the unrounded remainingPool
\* of iteration n minus the loanAmount of iteration n (0 without a loan).
C4_CarryOverRecurrence ==
    /\ \A n \in 1 .. Len(monthLocals) - 1 :
           monthLocals[n + 1].carryIn =
               Sub[monthLocals[n].remainingPool, monthLocals[n].loanAmount]
    /\ (pc = "loop" /\ Len(monthLocals) >= 1) =>
           carryOverPool = Sub[monthLocals[Len(monthLocals)].remainingPool,
                               monthLocals[Len(monthLocals)].loanAmount]

\* Two consecutive months, the first with a fractional loan, the second
\* entered with what was left.
C4_Witness ==
    /\ Len(monthLocals) >= 2
    /\ monthLocals[1].loanIssued
    /\ Lt[Zero, monthLocals[1].loanAmount]
    /\ Lt[monthLocals[1].loanAmount, monthLocals[1].remainingPool]
    /\ Lt[Zero, monthLocals[2].carryIn]

\* C5: the withdrawalAmount of the record of month n is
\* firstWithdrawal + monthlyIncrement * (n - 1).
C5_WithdrawalAmountFormula ==
    \A n \in 1 .. Len(withdrawalSchedule) :
        withdrawalSchedule[n].withdrawalAmount =
            Num(calcInputs.firstWithdrawal + calcInputs.monthlyIncrement * (n - 1))

\* A settlement month later than month 1 with a non-zero increment, paying
\* several members.
C5_Witness ==
    \E n \in 2 .. Len(withdrawalSchedule) :
        /\ withdrawalSchedule[n].isLastMonth
        /\ calcInputs.monthlyIncrement # 0
        /\ Le[Num(2), withdrawalSchedule[n].actualWithdrawals]

\* A positive withdrawal amount in every month of the duration.
PositiveWithdrawals ==
    \A k \in 0 .. calcInputs.totalMembers - 1 :
        Lt[Zero, WithdrawalAmount(calcInputs, k)]

\* C6 as stated: along every schedule remainingMembersAfter never increases
\* (no negative actualWithdrawals) and is never below 0.
C6_MembersNeverIncrease ==
    /\ \A n \in 1 .. Len(withdrawalSchedule) :
           /\ Le[Zero, withdrawalSchedule[n].actualWithdrawals]
           /\ Le[Zero, withdrawalSchedule[n].remainingMembersAfter]
    /\ \A n \in 1 .. Len(withdrawalSchedule) - 1 :
           Le[withdrawalSchedule[n + 1].remainingMembersAfter,
              withdrawalSchedule[n].remainingMembersAfter]

\* C6 amended: the same for valid parameters and a non-negative loan interest
\* rate.
C6_MembersNeverIncreaseValid ==
    (ValidParameters /\ calcInputs.loanInterestRate >= 0) => C6_MembersNeverIncrease

\* A valid scheme with interest whose second month serves a member and
\* leaves another waiting.
C6_Witness ==
    /\ ValidParameters /\ calcInputs.loanInterestRate > 0
    /\ Len(withdrawalSchedule) >= 2
    /\ Lt[withdrawalSchedule[2].remainingMembersAfter,
          withdrawalSchedule[1].remainingMembersAfter]
    /\ Lt[Zero, withdrawalSchedule[2].remainingMembersAfter]

\* C7 as stated: the withdrawalAmount of each record is strictly greater
\* than that of the record before it, by the same difference for every pair.
C7_StrictlyIncreasing ==
    /\ \A n \in 1 .. Len(withdrawalSchedule) - 1 :
           Lt[withdrawalSchedule[n].withdrawalAmount,
              withdrawalSchedule[n + 1].withdrawalAmount]
    /\ \A n, k \in 1 .. Len(withdrawalSchedule) - 1 :
           Sub[withdrawalSchedule[n + 1].withdrawalAmount,
               withdrawalSchedule[n].withdrawalAmount]
           = Sub[withdrawalSchedule[k + 1].withdrawalAmount,
                 withdrawalSchedule[k].withdrawalAmount]

\* C7 amended: the withdrawalAmount of each record exceeds that of the record
\* before it by monthlyIncrement, the same for every pair; it is strictly
\* greater when monthlyIncrement is positive.
C7_FixedIncrement ==
    \A n \in 1 .. Len(withdrawalSchedule) - 1 :
        /\ Sub[withdrawalSchedule[n + 1].withdrawalAmount,
               withdrawalSchedule[n].withdrawalAmount]
           = Num(calcInputs.monthlyIncrement)
        /\ calcInputs.monthlyIncrement > 0 =>
               Lt[withdrawalSchedule[n].withdrawalAmount,
                  withdrawalSchedule[n + 1].withdrawalAmount]

\* Three records of a scheme with a positive increment.
C7_Witness ==
    /\ Len(withdrawalSchedule) >= 3
    /\ calcInputs.monthlyIncrement > 0

\* C8 as stated: the last record of every returned schedule has
\* remainingMembersAfter = 0.
C8_AllServed ==
    (pc = "done" /\ calcInputs.totalMembers > 0) =>
        StrictEq[withdrawalSchedule[Len(withdrawalSchedule)].remainingMembersAfter,
                 Zero]

\* C8 amended: with positive withdrawal amounts, the last record of a
\* returned schedule has remainingMembersAfter = 0, or it is the record of
\* month totalMembers and members are still waiting.
C8_ServedOrOutOfMonths ==
    (pc = "done" /\ calcInputs.totalMembers > 0 /\ PositiveWithdrawals) =>
        \/ StrictEq[withdrawalSchedule[Len(withdrawalSchedule)].remainingMembersAfter,
                    Zero]
        \/ /\ Len(withdrawalSchedule) = calcInputs.totalMembers
           /\ Lt[Zero, withdrawalSchedule[Len(withdrawalSchedule)].remainingMembersAfter]

\* A valid scheme that returns after totalMembers months with members
\* waiting.
C8_Witness ==
    /\ pc = "done" /\ ValidParameters
    /\ Len(withdrawalSchedule) = calcInputs.totalMembers
    /\ Len(withdrawalSchedule) >= 2
    /\ Lt[Zero, withdrawalSchedule[Len(withdrawalSchedule)].remainingMembersAfter]

\* C9 as stated: with utilization in 0..100, in every month
\* 0 <= loanAmount <= remainingPool, and the carry-over left after lending
\* is not negative.
C9_LoanWithinPool ==
    loanUtilization \in 0 .. 100 =>
        \A n \in 1 .. Len(monthLocals) :
            /\ Le[Zero, monthLocals[n].loanAmount]
            /\ Le[monthLocals[n].loanAmount, monthLocals[n].remainingPool]
            /\ Le[Zero, monthLocals[n].carryOut]

\* C9 amended: the same for schemes whose withdrawal amounts are positive.
C9_LoanWithinPoolPositive ==
    PositiveWithdrawals => C9_LoanWithinPool

\* A month that lends part of a positive remaining pool.
C9_Witness ==
    /\ PositiveWithdrawals
    /\ \E n \in 1 .. Len(monthLocals) :
           /\ monthLocals[n].loanIssued
           /\ Lt[Zero, monthLocals[n].loanAmount]
           /\ Lt[Zero, monthLocals[n].carryOut]

\* C10: with the default parameters the returned object has totalPool 100000,
\* commissionPerMonth 5000 and netPoolPerMonth 95000, and month 1 has
\* withdrawalAmount 80000, actualWithdrawals 1, remainingPool 15000,
\* loanAmount 7500, interestEarned 150 and repaymentDue 7650.  (The fields of
\* the returned object are read off the object the return statement builds
\* from the months followed.)
C10_DefaultScenario ==
    (calcInputs = DefaultInputs /\ loanUtilization = DefaultLoanUtilization
        /\ Len(withdrawalSchedule) >= 1) =>
        /\ \E r \in {FinalResult(calcInputs, withdrawalSchedule, loanDetails,
                                 totalLoanAmount, totalInterestEarned,
                                 [k \in 1 .. Len(withdrawalSchedule) |-> Null])} :
               /\ r.totalPool = Num(100000)
               /\ r.commissionPerMonth = Num(5000)
               /\ r.netPoolPerMonth = Num(95000)
        /\ withdrawalSchedule[1].month = 1
        /\ withdrawalSchedule[1].withdrawalAmount = Num(80000)
        /\ withdrawalSchedule[1].actualWithdrawals = Num(1)
        /\ withdrawalSchedule[1].remainingPool = Num(15000)
        /\ Len(loanDetails) >= 1
        /\ loanDetails[1].month = 1
        /\ loanDetails[1].loanAmount = Num(7500)
        /\ loanDetails[1].interestEarned = Num(150)
        /\ loanDetails[1].repaymentDue = Num(7650)

\* The default scheme after its first month.
C10_Witness ==
    /\ calcInputs = DefaultInputs /\ loanUtilization = DefaultLoanUtilization
    /\ Len(withdrawalSchedule) >= 1
    /\ Len(loanDetails) >= 1

\* C11: in the returned object totalCommission is commissionPerMonth times
\* the reported duration: with the per-period rate, commissionPerMonth is
\* totalPool * commissionRate / 100 and totalCommission is commissionPerMonth
\* times duration; with the fixed total, commissionPerMonth is
\* oneTimeCommission / duration and totalCommission is oneTimeCommission.
\* (Stated for valid parameters and a non-negative loan interest rate.)
C11_CommissionTimesDuration ==
    (pc = "done" /\ ValidParameters /\ calcInputs.loanInterestRate >= 0) =>
        IF calcInputs.commissionType = "monthly"
        THEN /\ result.commissionPerMonth
                    = Round[Div[Mul[TotalPool(calcInputs),
                                    Num(calcInputs.commissionRate)], Num(100)]]
             /\ result.totalCommission
                    = Round[Mul[Div[Mul[TotalPool(calcInputs),
                                        Num(calcInputs.commissionRate)], Num(100)],
                                Num(result.duration)]]
        ELSE /\ result.commissionPerMonth
                    = Round[Div[Num(calcInputs.oneTimeCommission),
                                Num(result.duration)]]
             /\ result.totalCommission = Num(calcInputs.oneTimeCommission)

\* Cash flows, at least one, that are all strictly negative or all strictly
\* positive.
NoSignChange(flows) ==
    /\ Len(flows) >= 1
    /\ \/ \A t \in 1 .. Len(flows) : Lt[flows[t], Zero]
       \/ \A t \in 1 .. Len(flows) : Lt[Zero, flows[t]]

\* C12: calculateIRR returns null, never a number, for every cash-flow
\* sequence whose entries are all strictly negative or all strictly positive.
\* (Stated for calls with the default tolerance.)
C12_NullWithoutSignChange ==
    (irrPc = "done" /\ NoSignChange(cashFlows) /\ tolerance = DefaultTolerance)
        => irrResult = Null

\* C14: whatever calculateIRR returns for the members, null included, no
\* error is raised and every withdrawing member gets its MemberReturn (one
\* call of calculateIRR each); a member for whom the call returned null has
\* monthlyIRR and annualizedIRR both null, and for every MemberReturn
\* annualizedIRR is null if and only if monthlyIRR is null.
C14_NullIrrHandled ==
    /\ pc # "error"
    /\ (pc = "done" /\ calcInputs.totalMembers > 0) =>
          /\ Len(result.memberReturns)
                 = Len(WithdrawalOrder(result.withdrawalSchedule, 1))
          /\ irrCalls = Len(result.memberReturns)
          /\ \A n \in 1 .. Len(result.memberReturns) :
                 (result.memberReturns[n].monthlyIRR = Null)
                     <=> (result.memberReturns[n].annualizedIRR = Null)

\* A returned analysis in which calculateIRR returned null for one member
\* and a rate for a member analysed after it.
C14_Witness ==
    /\ pc = "done"
    /\ \E n, k \in 1 .. Len(result.memberReturns) :
           /\ n < k
           /\ result.memberReturns[n].monthlyIRR = Null
           /\ result.memberReturns[n].annualizedIRR = Null
           /\ result.memberReturns[k].monthlyIRR # Null
           /\ result.memberReturns[k].annualizedIRR # Null

\* C15: in every copy of calculateChitDetails the last record of the schedule
\* is never read from an empty schedule, whatever totalMembers is.  (The copy
\* in ChitFundApp.tsx returns before the loop when totalMembers <= 0; this is
\* the statement for the second copy.)
C15_LastRecordNeverReadWhenEmpty == pc # "error"

\* C16: for each withdrawing member the cash flows passed to calculateIRR have
\* one entry per record of the schedule, in schedule order; the entry of the
\* member's withdrawal month is withdrawalAmount minus that month's
\* contributionPerMember, every other entry is minus that month's
\* contributionPerMember.
C16_CashFlowsPerMonth ==
    pc = "done" =>
        \A n \in 1 .. Len(result.memberReturns) :
            /\ Len(result.memberReturns[n].cashFlows) = result.duration
            /\ result.duration = Len(result.withdrawalSchedule)
            /\ \A m \in 1 .. Len(result.withdrawalSchedule) :
                   result.memberReturns[n].cashFlows[m] =
                       IF result.withdrawalSchedule[m].month =
                              result.memberReturns[n].withdrawalMonth
                       THEN Sub[result.memberReturns[n].withdrawal,
                                result.withdrawalSchedule[m].contributionPerMember]
                       ELSE Sub[Zero,
                                result.withdrawalSchedule[m].contributionPerMember]

\* Two members withdrawing in different months of a schedule of three or more
\* months, with a positive amount.
C16_Witness ==
    /\ pc = "done"
    /\ Len(result.withdrawalSchedule) >= 3
    /\ \E n, k \in 1 .. Len(result.memberReturns) :
           /\ result.memberReturns[n].withdrawalMonth = 1
           /\ result.memberReturns[k].withdrawalMonth >= 2
           /\ Lt[Zero, result.memberReturns[k].withdrawal]
           /\ Lt[Zero, result.withdrawalSchedule[2].contributionPerMember]

\* Number of entries of memberReturns whose withdrawalMonth is month.
EntriesOfMonth(returns, month) ==
    Cardinality({n \in 1 .. Len(returns) : returns[n].withdrawalMonth = month})

\* C17: memberReturns has one entry per withdrawal: actualWithdrawals entries
\* for each record, with that record's month; member ids are 1, 2, ... in
\* order, withdrawalMonth never decreases along the sequence, and the number
\* of entries equals totalMembersServed.
C17_OneEntryPerWithdrawal ==
    pc = "done" =>
        /\ \A k \in 1 .. Len(result.withdrawalSchedule) :
               Num(EntriesOfMonth(result.memberReturns,
                                  result.withdrawalSchedule[k].month))
                   = result.withdrawalSchedule[k].actualWithdrawals
        /\ \A n \in 1 .. Len(result.memberReturns) :
               result.memberReturns[n].member = n
        /\ \A n \in 1 .. Len(result.memberReturns) - 1 :
               result.memberReturns[n].withdrawalMonth
                   <= result.memberReturns[n + 1].withdrawalMonth
        /\ Num(Len(result.memberReturns)) = result.totalMembersServed

\* C17, for valid parameters and a non-negative loan interest rate:
\* memberReturns has actualWithdrawals entries for each record, with that
\* record's month; member ids are 1, 2, ... in order, withdrawalMonth never
\* decreases along the sequence, and the number of entries equals
\* totalMembersServed.
C17_OneEntryPerWithdrawalValid ==
    (ValidParameters /\ calcInputs.loanInterestRate >= 0) =>
        C17_OneEntryPerWithdrawal

\* A schedule with a month of one withdrawal, a later month of two or more,
\* and a month of none.
C17_Witness ==
    /\ pc = "done"
    /\ ValidParameters
    /\ calcInputs.loanInterestRate >= 0
    /\ \E j, k, l \in 1 .. Len(result.withdrawalSchedule) :
           /\ j < k
           /\ result.withdrawalSchedule[j].actualWithdrawals = Num(1)
           /\ Le[Num(2), result.withdrawalSchedule[k].actualWithdrawals]
           /\ result.withdrawalSchedule[l].actualWithdrawals = Zero
    /\ Len(result.memberReturns) >= 3

\* C18: for valid parameters (positive withdrawal amounts) a record flagged
\* isLastMonth pays out every member remaining at its start
\* (actualWithdrawals = remaining members before, remainingMembersAfter = 0)
\* and is the last record of the schedule: the loop adds no record after it.
C18_SettlementClearsEveryone ==
    ValidParameters =>
        \A k \in 1 .. Len(withdrawalSchedule) :
            withdrawalSchedule[k].isLastMonth =>
                /\ withdrawalSchedule[k].actualWithdrawals =
                       monthLocals[k].membersBefore
                /\ withdrawalSchedule[k].remainingMembersAfter = Zero
                /\ k = Len(withdrawalSchedule)
                /\ pc # "loop"

\* requiredNet of the claim C19 for the locals m of one month.
RequiredNet(m) ==
    Sub[Mul[m.membersBefore, m.withdrawalAmount], m.effectiveCarryOver]

\* C19: in a month flagged isLastMonth, with requiredNet = remaining members x
\* withdrawalAmount - effectiveCarryOver: if requiredNet <= 0 then
\* contributionPerMember = 0, no new contribution enters the pool and
\* availablePool = effectiveCarryOver; otherwise contributionPerMember is the
\* quotient (requiredNet + commissionPerMonth) / totalMembers, the new net
\* contribution equals requiredNet exactly, availablePool equals remaining
\* members x withdrawalAmount and remainingPool is 0.  In both cases
\* contributionPerMember is strictly below monthlyContribution.
C19_SettlementContribution ==
    \A k \in 1 .. Len(monthLocals) :
        monthLocals[k].isLastMonth =>
            /\ IF Le[RequiredNet(monthLocals[k]), Zero]
               THEN /\ monthLocals[k].contributionPerMember = Zero
                    /\ monthLocals[k].currentMonthContribution = Zero
                    /\ monthLocals[k].availablePool =
                           monthLocals[k].effectiveCarryOver
               ELSE /\ monthLocals[k].contributionPerMember =
                           Fl[monthLocals[k].precision,
                              Div[Add[RequiredNet(monthLocals[k]),
                                      monthLocals[k].commissionPerMonth],
                                  monthLocals[k].totalMembers]]
                    /\ monthLocals[k].currentMonthContribution =
                           RequiredNet(monthLocals[k])
                    /\ monthLocals[k].availablePool =
                           Mul[monthLocals[k].membersBefore,
                               monthLocals[k].withdrawalAmount]
                    /\ monthLocals[k].remainingPool = Zero
            /\ Lt[monthLocals[k].contributionPerMember,
                  monthLocals[k].monthlyContribution]

\* C20: whenever the last record of a schedule pays out all members that
\* remained at its start (remainingMembersAfter = 0), that record is flagged
\* isLastMonth.  (Stated for valid parameters and a non-negative loan
\* interest rate.)
C20_ClearingMonthFlagged ==
    (pc = "done" /\ ValidParameters /\ calcInputs.loanInterestRate >= 0) =>
        (result.withdrawalSchedule[result.duration].remainingMembersAfter = Zero
            => result.withdrawalSchedule[result.duration].isLastMonth)

\* The months of C21 that emit a LoanRecord: not a settlement month, and a
\* strictly positive remainingPool.
IsLoanMonth(m) == ~m.isLastMonth /\ Lt[Zero, m.remainingPool]

\* Sum of a local over the loan months among the first k months.
RECURSIVE SumOverLoanMonths(_, _, _)
SumOverLoanMonths(locals, field, k) ==
    IF k = 0 THEN Zero
    ELSE IF IsLoanMonth(locals[k])
    THEN Add[SumOverLoanMonths(locals, field, k - 1), locals[k][field]]
    ELSE SumOverLoanMonths(locals, field, k - 1)

\* C21: a LoanRecord exists for month m if and only if m is not a settlement
\* month and its remainingPool is strictly positive; in every other month
\* loanAmount, interestEarned and the repayment due next month are 0 and the
\* loan totals do not change (they are the sums over the loan months).  There
\* is at most one LoanRecord per month and the LoanRecords are in increasing
\* month order.
C21_LoanRecordIffLoanMonth ==
    /\ \A k \in 1 .. Len(monthLocals) :
           /\ (\E n \in 1 .. Len(loanDetails) : loanDetails[n].month = k)
                  <=> IsLoanMonth(monthLocals[k])
           /\ ~IsLoanMonth(monthLocals[k]) =>
                  /\ monthLocals[k].loanAmount = Zero
                  /\ monthLocals[k].interestEarned = Zero
                  /\ monthLocals[k].nextMonthRepayment = Zero
    /\ totalLoanAmount =
           SumOverLoanMonths(monthLocals, "loanAmount", Len(monthLocals))
    /\ totalInterestEarned =
           SumOverLoanMonths(monthLocals, "interestEarned", Len(monthLocals))
    /\ \A n \in 1 .. Len(loanDetails) - 1 :
           loanDetails[n].month < loanDetails[n + 1].month
    /\ \A n \in 1 .. Len(loanDetails) :
           loanDetails[n].month \in 1 .. Len(monthLocals)

\* A valid scheme with a month that lends a positive amount and a settlement
\* month that leaves a positive pool and lends nothing.
C21_Witness ==
    /\ ValidParameters
    /\ Len(loanDetails) >= 1
    /\ \E j, l \in 1 .. Len(monthLocals) :
           /\ IsLoanMonth(monthLocals[j])
           /\ Lt[Zero, monthLocals[j].loanAmount]
           /\ monthLocals[l].isLastMonth
           /\ Lt[Zero, monthLocals[l].remainingPool]
           /\ monthLocals[l].loanAmount = Zero

\* C22: the carry-over entering a month is carryOverPool plus the loan
\* repayment due: 0 for month 1, and for month n+1 the unrounded
\* remainingPool of month n plus the unrounded interestEarned of month n;
\* availablePool of a month is its new net contributions plus this
\* carry-over.
C22_CarryOverWithInterest ==
    /\ \A k \in 1 .. Len(monthLocals) :
           /\ monthLocals[k].effectiveCarryOver =
                  Add[monthLocals[k].carryIn, monthLocals[k].repaymentIn]
           /\ monthLocals[k].availablePool =
                  Add[monthLocals[k].currentMonthContribution,
                      monthLocals[k].effectiveCarryOver]
    /\ Len(monthLocals) >= 1 => monthLocals[1].effectiveCarryOver = Zero
    /\ \A n \in 1 .. Len(monthLocals) - 1 :
           monthLocals[n + 1].effectiveCarryOver =
               Add[monthLocals[n].remainingPool, monthLocals[n].interestEarned]

\* A month that lends part of its pool at a positive interest, followed by a
\* month whose carry-over exceeds what the former left.
C22_Witness ==
    \E n \in 1 .. Len(monthLocals) - 1 :
        /\ Lt[Zero, monthLocals[n].loanAmount]
        /\ Lt[monthLocals[n].loanAmount, monthLocals[n].remainingPool]
        /\ Lt[Zero, monthLocals[n].interestEarned]
        /\ Lt[monthLocals[n].remainingPool, monthLocals[n + 1].effectiveCarryOver]
        /\ Lt[monthLocals[n + 1].effectiveCarryOver, monthLocals[n + 1].availablePool]

\* C23: the loop stops as soon as remainingMembers reaches 0, also before
\* month totalMembers: no record follows a record whose remainingMembersAfter
\* is 0, and every record but the last has remainingMembersAfter > 0.
C23_StopsWhenAllServed ==
    /\ \A k \in 1 .. Len(withdrawalSchedule) - 1 :
           Lt[Zero, withdrawalSchedule[k].remainingMembersAfter]
    /\ (Len(withdrawalSchedule) >= 1
        /\ withdrawalSchedule[Len(withdrawalSchedule)].remainingMembersAfter = Zero)
           => pc \in {"analyze", "done"}

\* A schedule of two or more months that served everybody before month
\* totalMembers.
C23_Witness ==
    /\ pc = "done"
    /\ result.duration >= 2
    /\ result.duration < calcInputs.totalMembers
    /\ result.withdrawalSchedule[result.duration].remainingMembersAfter = Zero

\* The carry-in of the month after month n of a schedule, had it been
\* computed from the amounts reported for month n: the rounded remainingPool
\* of the MonthRecord plus the rounded interestEarned of the LoanRecord.
ReportedCarry(schedule, locals, n) ==
    Add[schedule[n].remainingPool, Round[locals[n].interestEarned]]

\* C24: rounding is applied to reported fields only.  The state fed into
\* month n+1 comes from the unrounded values of month n: the loan repayment
\* due is loanAmount + interestEarned, and the carry-in is remainingPool +
\* interestEarned, both unrounded; the record of month n+1 reports that
\* carry-in rounded once, so rounding error does not build up from month to
\* month.
C24_StateKeepsUnroundedValues ==
    \A n \in 1 .. Len(monthLocals) - 1 :
        /\ monthLocals[n + 1].repaymentIn =
               Add[monthLocals[n].loanAmount, monthLocals[n].interestEarned]
        /\ Add[monthLocals[n + 1].carryIn, monthLocals[n + 1].repaymentIn] =
               Add[monthLocals[n].remainingPool, monthLocals[n].interestEarned]
        /\ withdrawalSchedule[n + 1].carryOverFromPrevious =
               Round[Add[monthLocals[n].remainingPool,
                         monthLocals[n].interestEarned]]
        /\ withdrawalSchedule[n].remainingPool = Round[monthLocals[n].remainingPool]

\* A month whose unrounded remainingPool + interestEarned is not the sum of
\* the reported amounts, followed by a month that starts from the unrounded
\* sum.
C24_Witness ==
    \E n \in 1 .. Len(monthLocals) - 1 :
        /\ IsFinite(monthLocals[n].remainingPool)
        /\ Add[monthLocals[n].remainingPool, monthLocals[n].interestEarned]
               # ReportedCarry(withdrawalSchedule, monthLocals, n)
        /\ monthLocals[n + 1].effectiveCarryOver
               # ReportedCarry(withdrawalSchedule, monthLocals, n)
        /\ monthLocals[n + 1].effectiveCarryOver =
               Add[monthLocals[n].remainingPool, monthLocals[n].interestEarned]

\* C25: each month pays the largest number of members the pool supports
\* without overdrawing it: actualWithdrawals = min(floor(availablePool /
\* withdrawalAmount), remaining members); so for valid parameters
\* remainingPool >= 0 in every month, and when members remain unserved after
\* a month its remainingPool is strictly less than its withdrawalAmount.
C25_LargestAffordablePayout ==
    \A k \in 1 .. Len(monthLocals) :
        /\ monthLocals[k].actualWithdrawals =
               MathMin[Floor[Div[monthLocals[k].availablePool,
                                 monthLocals[k].withdrawalAmount]],
                       monthLocals[k].membersBefore]
        /\ ValidParameters =>
               /\ Le[Zero, monthLocals[k].remainingPool]
               /\ Lt[Zero, monthLocals[k].membersAfter] =>
                      Lt[monthLocals[k].remainingPool,
                         monthLocals[k].withdrawalAmount]

\* A valid scheme with a month that pays some but not all of the waiting
\* members and keeps a positive rest, and a month the pool pays nobody in.
C25_Witness ==
    /\ ValidParameters
    /\ \E j, k \in 1 .. Len(monthLocals) :
           /\ Lt[Zero, monthLocals[j].actualWithdrawals]
           /\ Lt[Zero, monthLocals[j].membersAfter]
           /\ Lt[Zero, monthLocals[j].remainingPool]
           /\ monthLocals[k].actualWithdrawals = Zero
           /\ Lt[Zero, monthLocals[k].availablePool]

\* -0.99 <= x <= 10
InRateRange(x) == ~LessThan[x, <<-99, 100>>] /\ ~LessThan[Num(10), x]

\* The candidate rate - npv / dnpv of the Newton-Raphson iteration about to
\* run.
Candidate ==
    Sub[rate, Div[Npv[cashFlows, rate, Len(cashFlows)],
                  Dnpv[cashFlows, rate, Len(cashFlows)]]]

\* C26: in the Newton-Raphson loop of calculateIRR the rate starts at 0.01;
\* after each update the rate of the next iteration is -0.5 if the candidate
\* is below -0.99, 1 if it is above 10, the candidate otherwise; so the rate
\* is in [-0.99, 10] at the start of every iteration, and every number that
\* calculateIRR returns, from either loop, is in [-0.99, 10].
C26_RateStaysInRange ==
    /\ []((irrPc = "newton" /\ iter = 0) => rate = <<1, 100>>)
    /\ [][(irrPc = "newton" /\ iter' = iter + 1) =>
              rate' = IF LessThan[Candidate, <<-99, 100>>] THEN <<-1, 2>>
                      ELSE IF LessThan[Num(10), Candidate] THEN Num(1)
                      ELSE Candidate]_vars
    /\ [](irrPc = "newton" => InRateRange(rate))
    /\ []((irrPc = "done" /\ irrResult # Null) => InRateRange(irrResult))

\* A call that returned the rate 1 the bounds check had reset it to.
C26_Witness ==
    /\ irrPc = "done"
    /\ iter >= 1
    /\ rate = Num(1)
    /\ irrResult = rate

\* |NPV| < tolerance at the rate r, for the cash flows of the call.
NpvWithinTolerance(r) ==
    LessThan[AbsNum[Npv[cashFlows, r, Len(cashFlows)]], tolerance]

\* |NPV'| < tolerance at the rate r, for the cash flows of the call.
DnpvWithinTolerance(r) ==
    LessThan[AbsNum[Dnpv[cashFlows, r, Len(cashFlows)]], tolerance]

\* C27: calculateIRR returns after at most maxIterations Newton-Raphson
\* iterations followed by at most maxIterations bisection iterations.
\* Bisection starts only after Newton-Raphson met |NPV'| < tolerance (with
\* |NPV| >= tolerance) or used up maxIterations; a value is returned at the
\* first iteration of either loop where |NPV| < tolerance, and only there;
\* null is returned only after bisection has used up maxIterations.
C27_TerminatesWithinBudget ==
    /\ <>(irrPc = "done")
    /\ [](iter <= maxIterations)
    /\ [][/\ (irrPc = "newton" /\ iter' = iter + 1) => iter < maxIterations
          /\ (irrPc = "bisect" /\ iter' = iter + 1) => iter < maxIterations
          /\ (irrPc = "newton" /\ irrPc' = "bisect") =>
                 \/ iter = maxIterations
                 \/ ~NpvWithinTolerance(rate) /\ DnpvWithinTolerance(rate)
          /\ irrPc' = "bisect" => irrPc \in {"newton", "bisect"}
          /\ (irrPc = "newton" /\ iter < maxIterations /\ NpvWithinTolerance(rate))
                 => (irrPc' = "done" /\ irrResult' = rate)
          /\ (irrPc = "bisect" /\ iter < maxIterations
              /\ NpvWithinTolerance(Midpoint(low, high)))
                 => (irrPc' = "done" /\ irrResult' = Midpoint(low, high))
          /\ (irrPc # "done" /\ irrPc' = "done" /\ irrResult' # Null) =>
                 /\ iter < maxIterations
                 /\ NpvWithinTolerance(irrResult')
                 /\ irrResult' = IF irrPc = "newton" THEN rate
                                 ELSE Midpoint(low, high)
          /\ (irrPc # "done" /\ irrPc' = "done" /\ irrResult' = Null) =>
                 (irrPc = "bisect" /\ iter = maxIterations)]_vars

\* A call that used up its Newton-Raphson budget of two iterations and then
\* its bisection budget, and returned null.
C27_Witness ==
    /\ irrPc = "done"
    /\ irrResult = Null
    /\ maxIterations = 2
    /\ iter = 2
    /\ rate # InitialRate
    /\ <<low, high>> # <<BisectionLow, BisectionHigh>>

\* Sum of the first k entries of a sequence of numbers.
RECURSIVE SumSeq(_, _)
SumSeq(seq, k) == IF k = 0 THEN Zero ELSE Add[SumSeq(seq, k - 1), seq[k]]

\* The contributionPerMember of the records of a schedule, in order.
Contributions(schedule) ==
    [k \in 1 .. Len(schedule) |-> schedule[k].contributionPerMember]

\* C28: for every entry of memberReturns totalContribution is the sum of
\* contributionPerMember over all records of the schedule, whatever the
\* member's withdrawal month (so it is the same for all members); netReturn
\* is the withdrawal minus totalContribution, which is the sum of the
\* member's cash flows; returnPercent is netReturn / totalContribution x 100.
C28_MemberReturnFigures ==
    pc = "done" =>
        \A n \in 1 .. Len(result.memberReturns) :
            /\ result.memberReturns[n].totalContribution =
                   SumSeq(Contributions(result.withdrawalSchedule),
                          Len(result.withdrawalSchedule))
            /\ result.memberReturns[n].netReturn =
                   Sub[result.memberReturns[n].withdrawal,
                       result.memberReturns[n].totalContribution]
            /\ result.memberReturns[n].netReturn =
                   SumSeq(result.memberReturns[n].cashFlows,
                          Len(result.memberReturns[n].cashFlows))
            /\ result.memberReturns[n].returnPercent =
                   Mul[Div[result.memberReturns[n].netReturn,
                           result.memberReturns[n].totalContribution],
                       Num(100)]

\* Members withdrawing in different months of a schedule whose months ask
\* different contributions, one of them with a gain, one with a loss.
C28_Witness ==
    /\ pc = "done"
    /\ \E j, k \in 1 .. Len(result.withdrawalSchedule) :
           Lt[result.withdrawalSchedule[j].contributionPerMember,
              result.withdrawalSchedule[k].contributionPerMember]
    /\ \E n, l \in 1 .. Len(result.memberReturns) :
           /\ result.memberReturns[n].withdrawalMonth
                  < result.memberReturns[l].withdrawalMonth
           /\ Lt[result.memberReturns[n].netReturn, Zero]
           /\ Lt[Zero, result.memberReturns[l].netReturn]
           /\ Lt[Zero, result.memberReturns[l].returnPercent]

\* The values of one local over the first k months.
LocalOfMonths(locals, field, k) == [j \in 1 .. k |-> locals[j][field]]

\* C29: pool conservation in unrounded values.  After any number of months
\* the remainingPool of the latest month is the sum of the new net
\* contributions of all months so far, minus the sum of totalWithdrawn of all
\* months so far, plus the sum of interestEarned of the months before the
\* latest.
C29_PoolConservation ==
    \A k \in 1 .. Len(monthLocals) :
        monthLocals[k].remainingPool =
            Add[Sub[SumSeq(LocalOfMonths(monthLocals, "currentMonthContribution", k), k),
                    SumSeq(LocalOfMonths(monthLocals, "totalWithdrawn", k), k)],
                SumSeq(LocalOfMonths(monthLocals, "interestEarned", k - 1), k - 1)]

\* Three months with withdrawals in two of them, interest earned in the
\* first two, and a positive pool left by the third.
C29_Witness ==
    /\ Len(monthLocals) >= 3
    /\ Lt[Zero, monthLocals[1].interestEarned]
    /\ Lt[Zero, monthLocals[2].interestEarned]
    /\ Lt[Zero, monthLocals[3].remainingPool]
    /\ \E j, k \in 1 .. 3 :
           /\ j < k
           /\ Lt[Zero, monthLocals[j].totalWithdrawn]
           /\ Lt[Zero, monthLocals[k].totalWithdrawn]

\* C30: if the schedule serves every member (the last record has
\* remainingMembersAfter = 0) no loan is issued in the last month: every
\* LoanRecord is of a month that another month follows, and the carry-in of
\* that month includes the loan's repayment due; so totalLoanAmount and
\* totalInterestEarned count repaid loans only.
C30_NoLoanInClearingMonth ==
    (pc = "done" /\ result.duration >= 1
     /\ result.withdrawalSchedule[result.duration].remainingMembersAfter = Zero) =>
        /\ \A n \in 1 .. Len(result.loanDetails) :
               /\ result.loanDetails[n].month < result.duration
               /\ monthLocals[result.loanDetails[n].month + 1].repaymentIn =
                      monthLocals[result.loanDetails[n].month].nextMonthRepayment
               /\ monthLocals[result.loanDetails[n].month + 1].effectiveCarryOver =
                      Add[monthLocals[result.loanDetails[n].month + 1].carryIn,
                          monthLocals[result.loanDetails[n].month].nextMonthRepayment]
        /\ monthLocals[result.duration].loanAmount = Zero
        /\ monthLocals[result.duration].interestEarned = Zero

\* A schedule that served everybody, lent a positive amount in an earlier
\* month, and ended with a positive pool that was not lent.
C30_Witness ==
    /\ pc = "done"
    /\ result.duration >= 2
    /\ result.withdrawalSchedule[result.duration].remainingMembersAfter = Zero
    /\ Len(result.loanDetails) >= 1
    /\ Lt[Zero, monthLocals[result.loanDetails[1].month].nextMonthRepayment]
    /\ Lt[Zero, monthLocals[result.duration].remainingPool]

====
